---------------------------- MODULE Spec2Model ----------------------------
(***************************************************************************)
(* A model of the Pushover client library (src/Pushover/__init__.py).      *)
(*                                                                         *)
(* The client holds one field (app_token) and performs one synchronous     *)
(* call per operation.  A behaviour of the model is one call: Init draws   *)
(* the operation and its arguments, the operation's action runs the whole  *)
(* handler (drawing the remote service's answer where the handler reaches  *)
(* the network), and Finalize is the runtime reclaiming a file object the  *)
(* handler left open.                                                      *)
(*                                                                         *)
(* Encoding.  A Python Optional, a dictionary entry and a JSON object      *)
(* member are all written as a tuple: <<>> is None / no such key, <<v>>    *)
(* is the value v.  A dictionary over a known key universe is a record     *)
(* of such tuples.  The text fields of GlancesData are sequences of        *)
(* characters, so that len() is Len().                                     *)
(***************************************************************************)
EXTENDS Integers, Sequences, FiniteSets, TLC

VARIABLES app_token, op, args, pc, response, requests, result, handle

vars == <<app_token, op, args, pc, response, requests, result, handle>>

-----------------------------------------------------------------------------
(* Optionals and Python truthiness *)

None == <<>>

Some(v) == <<v>>

Val(o) == o[1]

\* bool(x) of an Optional[str]: None and "" are falsy
StrTruthy(o) == o # None /\ Val(o) # ""

\* bool(x) of an Optional[int]: None and 0 are falsy
IntTruthy(o) == o # None /\ Val(o) # 0

\* bool(x) of an Optional[str] held as a sequence of characters
TextTruthy(o) == o # None /\ Len(Val(o)) > 0

\* the keys a dictionary holds
Keys(d) == {k \in DOMAIN d : d[k] # None}

-----------------------------------------------------------------------------
(* Program constants *)

LOWEST == -2

LOW == -1

NORMAL == 0

HIGH == 1

EMERGENCY == 2

Priority == {LOWEST, LOW, NORMAL, HIGH, EMERGENCY}

RetryMin == 30

ExpireMax == 10800

MaxTextLen == 100

PercentMin == 0

PercentMax == 100

HttpOk == 200

StatusOk == 1

-----------------------------------------------------------------------------
(* Bounds of the model *)

\* how far around each limit (RetryMin, ExpireMax, MaxTextLen, PercentMin,
\* PercentMax) the arguments range
Slack == 1

\* how many of send_message's plain optional fields a call sets at once
MaxSupplied == 2


-----------------------------------------------------------------------------
(* The environment: credentials, the file system, the remote service *)

Tokens == {"app-token"}

\* the paths open(path, "rb") succeeds on
ReadablePaths == {"image.jpg"}

StatusCodes == {HttpOk, 201, 500}

\* a decoded JSON object over the members the client reads
JsonObjects ==
    [kind : {"object"},
     status : {None, Some(0), Some(StatusOk)},
     request : {None, Some("req-1")},
     receipt : {None, Some("rcpt-1")},
     errors : {None, Some(<<"invalid token">>)}]

NoMembers == [status |-> None, request |-> None, receipt |-> None, errors |-> None]

\* a body that is valid JSON but no object (a list), and one that is no JSON
JsonList == [kind |-> "list"] @@ NoMembers

NotJson == [kind |-> "notjson"] @@ NoMembers

Bodies == JsonObjects \cup {JsonList, NotJson}

\* what requests.post does: it raises a RequestException (transport # "ok")
\* or returns a response with a status code and a body
TransportErrors == {"ConnectionError", "Timeout"}

Responses ==
    [transport : {"ok"}, status_code : StatusCodes, body : Bodies]
    \cup [transport : TransportErrors, status_code : {0}, body : {NotJson}]

NoResponse == [transport |-> "none", status_code |-> 0, body |-> NotJson]

-----------------------------------------------------------------------------
(* Outcomes of a call *)

NoResult == [kind |-> "none", exc |-> "", msg |-> "", detail |-> <<>>, value |-> None]

Return(v) == [kind |-> "return", exc |-> "", msg |-> "", detail |-> <<>>, value |-> v]

Raise(e, m, d) == [kind |-> "raise", exc |-> e, msg |-> m, detail |-> d, value |-> None]

PushoverResponse(s, r, rc) == [status |-> s, request_id |-> r, receipt |-> rc, errors |-> None]

Post(u, d, f) == [method |-> "POST", url |-> u, data |-> d, files |-> f]

-----------------------------------------------------------------------------
(* Pushover.send_message *)

SimpleFields ==
    {"title", "device", "sound", "url", "url_title", "timestamp", "html",
     "monospace", "ttl"}

SendDefaults ==
    [user_key |-> "user-key", message |-> "hello", title |-> None, device |-> None,
     priority |-> NORMAL, sound |-> None, url |-> None, url_title |-> None,
     timestamp |-> None, html |-> FALSE, monospace |-> FALSE, ttl |-> None,
     retry |-> None, expire |-> None, callback_url |-> None, attachment |-> None]

\* the values a caller passes for a plain optional field: one meaningful
\* (i = 1) and one falsy (i = 2)
Supplied(k, i) ==
    CASE k = "title" -> IF i = 1 THEN Some("Title") ELSE Some("")
      [] k = "device" -> IF i = 1 THEN Some("phone") ELSE Some("")
      [] k = "sound" -> IF i = 1 THEN Some("siren") ELSE Some("")
      [] k = "url" -> IF i = 1 THEN Some("https://example.org") ELSE Some("")
      [] k = "url_title" -> IF i = 1 THEN Some("Link") ELSE Some("")
      [] k = "timestamp" -> IF i = 1 THEN Some(1700000000) ELSE Some(0)
      [] k = "ttl" -> IF i = 1 THEN Some(60) ELSE Some(0)
      [] OTHER -> (i = 1)

\* calls that set at most MaxSupplied of the plain optional fields
SendArgsPlain ==
    UNION {{[k \in DOMAIN SendDefaults |->
                IF k \in S THEN Supplied(k, g[k]) ELSE SendDefaults[k]]
            : g \in [S -> 1..2]}
           : S \in {T \in SUBSET SimpleFields : Cardinality(T) <= MaxSupplied}}

Retries == {None, Some(0)} \cup {Some(n) : n \in (RetryMin - Slack)..(RetryMin + Slack)}

Expires ==
    {None, Some(0), Some(-1)}
    \cup {Some(n) : n \in (ExpireMax - Slack)..(ExpireMax + Slack)}

Callbacks == {None, Some(""), Some("https://example.org/ack")}

Attachments == {None, Some(""), Some("missing.jpg"), Some("image.jpg")}

\* calls that set the priority, the emergency fields and the attachment
SendArgsEmergency ==
    {[SendDefaults EXCEPT !.priority = p, !.retry = r, !.expire = e,
                          !.callback_url = c, !.attachment = f]
     : p \in Priority, r \in Retries, e \in Expires, c \in Callbacks,
       f \in Attachments}

SendArgs == SendArgsPlain \cup SendArgsEmergency

SendKeys ==
    {"token", "user", "message", "priority", "title", "device", "sound", "url",
     "url_title", "timestamp", "html", "monospace", "ttl", "retry", "expire",
     "callback"}

\* SendPayload testing "is not None" where the code tests truthiness
SendPayload_NotNone(tok, a) ==
    [k \in SendKeys |->
        CASE k = "token" -> Some(tok)
          [] k = "user" -> Some(a.user_key)
          [] k = "message" -> Some(a.message)
          [] k = "priority" -> Some(a.priority)
          [] k = "title" -> a.title
          [] k = "device" -> a.device
          [] k = "sound" -> a.sound
          [] k = "url" -> a.url
          [] k = "url_title" -> a.url_title
          [] k = "timestamp" -> a.timestamp
          [] k = "html" -> IF a.html THEN Some(1) ELSE None
          [] k = "monospace" -> IF a.monospace THEN Some(1) ELSE None
          [] k = "ttl" -> a.ttl
          [] OTHER -> None]

\* lines 120-136: the base payload and the plain optional fields
SendPayload(tok, a) ==
    [k \in SendKeys |->
        CASE k = "token" -> Some(tok)
          [] k = "user" -> Some(a.user_key)
          [] k = "message" -> Some(a.message)
          [] k = "priority" -> Some(a.priority)
          [] k = "title" -> IF StrTruthy(a.title) THEN a.title ELSE None
          [] k = "device" -> IF StrTruthy(a.device) THEN a.device ELSE None
          [] k = "sound" -> IF StrTruthy(a.sound) THEN a.sound ELSE None
          [] k = "url" -> IF StrTruthy(a.url) THEN a.url ELSE None
          [] k = "url_title" -> IF StrTruthy(a.url_title) THEN a.url_title ELSE None
          [] k = "timestamp" -> IF IntTruthy(a.timestamp) THEN a.timestamp ELSE None
          [] k = "html" -> IF a.html THEN Some(1) ELSE None
          [] k = "monospace" -> IF a.monospace THEN Some(1) ELSE None
          [] k = "ttl" -> IF IntTruthy(a.ttl) THEN a.ttl ELSE None
          [] OTHER -> None]

\* EmergencyError with the retry limit off by one (<= for <)
EmergencyError_RetryOffByOne(a) ==
    IF a.priority = EMERGENCY
    THEN IF ~IntTruthy(a.retry) \/ ~IntTruthy(a.expire)
         THEN "Emergency priority requires retry and expire parameters"
         ELSE IF Val(a.retry) <= RetryMin
         THEN "retry must be at least 30 seconds"
         ELSE IF Val(a.expire) > ExpireMax
         THEN "expire must be at most 10800 seconds (3 hours)"
         ELSE ""
    ELSE ""

\* lines 139-145: the message of the ValueError raised, "" when none is
EmergencyError(a) ==
    IF a.priority = EMERGENCY
    THEN IF ~IntTruthy(a.retry) \/ ~IntTruthy(a.expire)
         THEN "Emergency priority requires retry and expire parameters"
         ELSE IF Val(a.retry) < RetryMin
         THEN "retry must be at least 30 seconds"
         ELSE IF Val(a.expire) > ExpireMax
         THEN "expire must be at most 10800 seconds (3 hours)"
         ELSE ""
    ELSE ""

\* lines 139, 147-150: the emergency fields, added once the checks passed
EmergencyPayload(p, a) ==
    IF a.priority = EMERGENCY
    THEN [p EXCEPT !["retry"] = a.retry,
                   !["expire"] = a.expire,
                   !["callback"] = IF StrTruthy(a.callback_url)
                                   THEN a.callback_url ELSE None]
    ELSE p

\* OpenAttachment without the try/except around open()
OpenAttachment_Unwrapped(a) ==
    IF ~StrTruthy(a.attachment)
    THEN [error |-> NoResult, files |-> None, handle |-> "none"]
    ELSE IF Val(a.attachment) \in ReadablePaths
    THEN [error |-> NoResult, files |-> a.attachment, handle |-> "open"]
    ELSE [error |-> Raise("FileNotFoundError", "", <<>>),
          files |-> None, handle |-> "none"]

\* lines 152-159: files is None, or holds a file object that open() returned;
\* an open() that fails is wrapped in a PushoverError
OpenAttachment(a) ==
    IF ~StrTruthy(a.attachment)
    THEN [error |-> NoResult, files |-> None, handle |-> "none"]
    ELSE IF Val(a.attachment) \in ReadablePaths
    THEN [error |-> NoResult, files |-> a.attachment, handle |-> "open"]
    ELSE [error |-> Raise("PushoverError", "Failed to read attachment",
                          <<"FileNotFoundError">>),
          files |-> None, handle |-> "none"]

\* SendOutcome reporting a non-200 answer without the service's errors list
SendOutcome_DropsErrors(resp, jsonErrIsRequestException) ==
    IF resp.transport # "ok"
    THEN Raise("PushoverError", "Request failed", <<resp.transport>>)
    ELSE IF resp.body.kind = "notjson"
    THEN IF jsonErrIsRequestException
         THEN Raise("PushoverError", "Request failed", <<"JSONDecodeError">>)
         ELSE Raise("JSONDecodeError", "", <<>>)
    ELSE IF resp.status_code # HttpOk
    THEN Raise("PushoverError", "API request failed", <<"Unknown error">>)
    ELSE IF resp.body.kind # "object"
    THEN Raise("TypeError", "status", <<>>)
    ELSE IF resp.body.status = None
    THEN Raise("KeyError", "status", <<>>)
    ELSE IF resp.body.request = None
    THEN Raise("KeyError", "request", <<>>)
    ELSE Return(PushoverResponse(Val(resp.body.status), Val(resp.body.request),
                                 resp.body.receipt))

\* lines 162-180: what the call makes of the service's answer.  response.json()
\* on a body that is no JSON raises JSONDecodeError, which is a RequestException
\* in some releases of the requests library (jsonErrIsRequestException) and a
\* plain ValueError subclass in the others.
SendOutcome(resp, jsonErrIsRequestException) ==
    IF resp.transport # "ok"
    THEN Raise("PushoverError", "Request failed", <<resp.transport>>)
    ELSE IF resp.body.kind = "notjson"
    THEN IF jsonErrIsRequestException
         THEN Raise("PushoverError", "Request failed", <<"JSONDecodeError">>)
         ELSE Raise("JSONDecodeError", "", <<>>)
    ELSE IF resp.status_code # HttpOk
    THEN IF resp.body.kind # "object"
         THEN Raise("AttributeError", "get", <<>>)
         ELSE Raise("PushoverError", "API request failed",
                    IF resp.body.errors = None
                    THEN <<"Unknown error">> ELSE Val(resp.body.errors))
    ELSE IF resp.body.kind # "object"
    THEN Raise("TypeError", "status", <<>>)
    ELSE IF resp.body.status = None
    THEN Raise("KeyError", "status", <<>>)
    ELSE IF resp.body.request = None
    THEN Raise("KeyError", "request", <<>>)
    ELSE Return(PushoverResponse(Val(resp.body.status), Val(resp.body.request),
                                 resp.body.receipt))

send_message ==
    /\ pc = "start"
    /\ op = "send_message"
    /\ pc' = "done"
    /\ UNCHANGED <<app_token, op, args>>
    /\ LET err == EmergencyError(args)
           payload == EmergencyPayload(SendPayload(app_token, args), args)
           att == OpenAttachment(args)
       IN  IF err # ""
           THEN /\ result' = Raise("ValueError", err, <<>>)
                /\ UNCHANGED <<response, requests, handle>>
           ELSE IF att.error # NoResult
           THEN /\ result' = att.error
                /\ UNCHANGED <<response, requests, handle>>
           ELSE \E resp \in Responses, v \in BOOLEAN :
                    /\ requests' = Append(requests, Post("/messages.json", payload,
                                                         att.files))
                    /\ response' = resp
                    /\ handle' = att.handle
                    /\ result' = SendOutcome(resp, v)

\* lines 155-157: nothing in send_message closes the file object; once the
\* call is over the runtime may reclaim it, which closes it
Finalize ==
    /\ pc = "done"
    /\ handle = "open"
    /\ handle' = "closed"
    /\ UNCHANGED <<app_token, op, args, pc, response, requests, result>>

-----------------------------------------------------------------------------
(* Pushover.validate_user *)

ValidateArgs ==
    [user_key : {"user-key"}, device : {None, Some(""), Some("phone")}]

\* lines 193-198
ValidatePayload(tok, a) ==
    [token |-> Some(tok), user |-> Some(a.user_key),
     device |-> IF StrTruthy(a.device) THEN a.device ELSE None]

\* ValidateOutcome catching only the transport's exceptions
ValidateOutcome_NarrowExcept(resp) ==
    IF resp.transport # "ok"
    THEN Return(FALSE)
    ELSE IF resp.body.kind = "notjson"
    THEN Raise("JSONDecodeError", "", <<>>)
    ELSE IF resp.body.kind # "object"
    THEN Raise("AttributeError", "get", <<>>)
    ELSE Return(resp.body.status = Some(StatusOk))

\* lines 200-208: every exception is caught and becomes False
ValidateOutcome(resp) ==
    IF resp.transport # "ok"
    THEN Return(FALSE)
    ELSE IF resp.body.kind # "object"
    THEN Return(FALSE)
    ELSE Return(resp.body.status = Some(StatusOk))

validate_user ==
    /\ pc = "start"
    /\ op = "validate_user"
    /\ pc' = "done"
    /\ UNCHANGED <<app_token, op, args, handle>>
    /\ \E resp \in Responses :
          /\ requests' = Append(requests, Post("/users/validate.json",
                                               ValidatePayload(app_token, args), None))
          /\ response' = resp
          /\ result' = ValidateOutcome(resp)

-----------------------------------------------------------------------------
(* Pushover.cancel_emergency *)

CancelArgs == [receipt : {"rcpt-1", "rcpt-2"}]

\* CancelOutcome accepting every 2xx status
CancelOutcome_Any2xx(resp) ==
    IF resp.transport # "ok"
    THEN Return(FALSE)
    ELSE Return(resp.status_code >= 200 /\ resp.status_code < 300)

\* lines 246-253
CancelOutcome(resp) ==
    IF resp.transport # "ok"
    THEN Return(FALSE)
    ELSE Return(resp.status_code = HttpOk)

cancel_emergency ==
    /\ pc = "start"
    /\ op = "cancel_emergency"
    /\ pc' = "done"
    /\ UNCHANGED <<app_token, op, args, handle>>
    /\ \E resp \in Responses :
          /\ requests' = Append(requests, Post(<<"/receipts", args.receipt, "cancel.json">>,
                                               [token |-> Some(app_token)], None))
          /\ response' = resp
          /\ result' = CancelOutcome(resp)

-----------------------------------------------------------------------------
(* GlancesData and Pushover.update_glance *)

\* a string of n characters
Text(n) == [i \in 1..n |-> "a"]

TextLens == {0} \cup ((MaxTextLen - Slack + 1)..(MaxTextLen + Slack))

Texts == {None} \cup {Some(Text(n)) : n \in TextLens}

Counts == {None, Some(0), Some(5)}

Percents ==
    {None}
    \cup {Some(n) : n \in (PercentMin - Slack)..PercentMin}
    \cup {Some(n) : n \in PercentMax..(PercentMax + Slack)}

GlancesDatas ==
    [title : Texts, text : Texts, subtext : Texts, count : Counts, percent : Percents]

\* GlancesValidate with the length limit off by one (>= for >)
GlancesValidate_LenOffByOne(g) ==
    IF TextTruthy(g.title) /\ Len(Val(g.title)) >= MaxTextLen
    THEN "title must be 100 characters or less"
    ELSE IF TextTruthy(g.text) /\ Len(Val(g.text)) >= MaxTextLen
    THEN "text must be 100 characters or less"
    ELSE IF TextTruthy(g.subtext) /\ Len(Val(g.subtext)) >= MaxTextLen
    THEN "subtext must be 100 characters or less"
    ELSE IF g.percent # None
            /\ ~(PercentMin <= Val(g.percent) /\ Val(g.percent) <= PercentMax)
    THEN "percent must be between 0 and 100"
    ELSE ""

\* lines 24-33: the message of the ValueError raised, "" when none is
GlancesValidate(g) ==
    IF TextTruthy(g.title) /\ Len(Val(g.title)) > MaxTextLen
    THEN "title must be 100 characters or less"
    ELSE IF TextTruthy(g.text) /\ Len(Val(g.text)) > MaxTextLen
    THEN "text must be 100 characters or less"
    ELSE IF TextTruthy(g.subtext) /\ Len(Val(g.subtext)) > MaxTextLen
    THEN "subtext must be 100 characters or less"
    ELSE IF g.percent # None
            /\ ~(PercentMin <= Val(g.percent) /\ Val(g.percent) <= PercentMax)
    THEN "percent must be between 0 and 100"
    ELSE ""

\* GlancesToDict testing truthiness where the code tests "is not None"
GlancesToDict_Truthy(g) ==
    [title |-> IF TextTruthy(g.title) THEN Some(Val(g.title)) ELSE None,
     text |-> IF TextTruthy(g.text) THEN Some(Val(g.text)) ELSE None,
     subtext |-> IF TextTruthy(g.subtext) THEN Some(Val(g.subtext)) ELSE None,
     count |-> IF IntTruthy(g.count) THEN Some(Val(g.count)) ELSE None,
     percent |-> IF IntTruthy(g.percent) THEN Some(Val(g.percent)) ELSE None]

\* lines 35-43
GlancesToDict(g) ==
    [title |-> IF g.title # None THEN Some(Val(g.title)) ELSE None,
     text |-> IF g.text # None THEN Some(Val(g.text)) ELSE None,
     subtext |-> IF g.subtext # None THEN Some(Val(g.subtext)) ELSE None,
     count |-> IF g.count # None THEN Some(Val(g.count)) ELSE None,
     percent |-> IF g.percent # None THEN Some(Val(g.percent)) ELSE None]

\* a caller serializing a GlancesData
to_dict ==
    /\ pc = "start"
    /\ op = "to_dict"
    /\ pc' = "done"
    /\ result' = Return(GlancesToDict(args.glances_data))
    /\ UNCHANGED <<app_token, op, args, response, requests, handle>>

GlanceArgs ==
    [user_key : {"user-key"}, glances_data : GlancesDatas,
     device : {None, Some(""), Some("watch")}]

\* lines 309-316
GlancePayload(tok, a) ==
    [token |-> Some(tok), user |-> Some(a.user_key),
     device |-> IF StrTruthy(a.device) THEN a.device ELSE None]
    @@ GlancesToDict(a.glances_data)

\* lines 319-335: as SendOutcome, without a receipt
GlanceOutcome(resp, jsonErrIsRequestException) ==
    IF resp.transport # "ok"
    THEN Raise("PushoverError", "Request failed", <<resp.transport>>)
    ELSE IF resp.body.kind = "notjson"
    THEN IF jsonErrIsRequestException
         THEN Raise("PushoverError", "Request failed", <<"JSONDecodeError">>)
         ELSE Raise("JSONDecodeError", "", <<>>)
    ELSE IF resp.status_code # HttpOk
    THEN IF resp.body.kind # "object"
         THEN Raise("AttributeError", "get", <<>>)
         ELSE Raise("PushoverError", "API request failed",
                    IF resp.body.errors = None
                    THEN <<"Unknown error">> ELSE Val(resp.body.errors))
    ELSE IF resp.body.kind # "object"
    THEN Raise("TypeError", "status", <<>>)
    ELSE IF resp.body.status = None
    THEN Raise("KeyError", "status", <<>>)
    ELSE IF resp.body.request = None
    THEN Raise("KeyError", "request", <<>>)
    ELSE Return(PushoverResponse(Val(resp.body.status), Val(resp.body.request), None))

update_glance ==
    /\ pc = "start"
    /\ op = "update_glance"
    /\ pc' = "done"
    /\ UNCHANGED <<app_token, op, args, handle>>
    /\ LET err == GlancesValidate(args.glances_data)
       IN  IF err # ""
           THEN /\ result' = Raise("ValueError", err, <<>>)
                /\ UNCHANGED <<response, requests>>
           ELSE \E resp \in Responses, v \in BOOLEAN :
                    /\ requests' = Append(requests, Post("/glances.json",
                                                         GlancePayload(app_token, args),
                                                         None))
                    /\ response' = resp
                    /\ result' = GlanceOutcome(resp, v)

-----------------------------------------------------------------------------

Init ==
    /\ app_token \in Tokens
    /\ pc = "start"
    /\ response = NoResponse
    /\ requests = <<>>
    /\ result = NoResult
    /\ handle = "none"
    /\ \/ op = "send_message" /\ args \in SendArgs
       \/ op = "validate_user" /\ args \in ValidateArgs
       \/ op = "cancel_emergency" /\ args \in CancelArgs
       \/ op = "update_glance" /\ args \in GlanceArgs
       \/ op = "to_dict" /\ args \in [glances_data : GlancesDatas]

Next ==
    \/ send_message
    \/ validate_user
    \/ cancel_emergency
    \/ update_glance
    \/ to_dict
    \/ Finalize

Spec == Init /\ [][Next]_vars

-----------------------------------------------------------------------------
(* Properties *)

\* the call of operation o is over
Done(o) == pc = "done" /\ op = o

\* the call raised a ValueError, the library's validation error
ValidationError == result.kind = "raise" /\ result.exc = "ValueError"

\* the call raised a PushoverError, the library's client error
ClientError == result.kind = "raise" /\ result.exc = "PushoverError"

\* the call reached the network
Sent == requests # <<>>

\* C1 as stated: send_message raises a validation error if and only if the
\* priority is EMERGENCY and retry is missing, or expire is missing, or
\* retry < 30, or expire > 10800.
C1_ValidationIffStated ==
    Done("send_message") =>
        (ValidationError <=>
            /\ args.priority = EMERGENCY
            /\ \/ args.retry = None
               \/ args.expire = None
               \/ (args.retry # None /\ Val(args.retry) < RetryMin)
               \/ (args.expire # None /\ Val(args.expire) > ExpireMax))

\* C1 amended: send_message raises a validation error if and only if the
\* priority is EMERGENCY and retry is missing, or expire is missing or zero,
\* or retry < 30, or expire > 10800.
C1_ValidationIff ==
    Done("send_message") =>
        (ValidationError <=>
            /\ args.priority = EMERGENCY
            /\ \/ args.retry = None
               \/ args.expire = None
               \/ (args.expire # None /\ Val(args.expire) = 0)
               \/ (args.retry # None /\ Val(args.retry) < RetryMin)
               \/ (args.expire # None /\ Val(args.expire) > ExpireMax))

\* an EMERGENCY call with retry = 30 and expire = 10800 was accepted and sent
C1_Witness ==
    /\ Done("send_message")
    /\ args.priority = EMERGENCY
    /\ args.retry = Some(RetryMin)
    /\ args.expire = Some(ExpireMax)
    /\ ~ValidationError
    /\ Sent

\* C2: a send_message that fails on a local check (the emergency validation,
\* or an attachment that cannot be opened, which is reported as a
\* PushoverError) has issued no request.
C2_NoRequestOnLocalFailure ==
    Done("send_message") =>
        /\ ValidationError => ~Sent
        /\ (/\ StrTruthy(args.attachment)
            /\ Val(args.attachment) \notin ReadablePaths
            /\ ~ValidationError)
           => (ClientError /\ result.msg = "Failed to read attachment" /\ ~Sent)

\* a call whose attachment does not exist ended in a PushoverError, unsent
C2_Witness ==
    /\ Done("send_message")
    /\ args.attachment = Some("missing.jpg")
    /\ ClientError
    /\ ~Sent

\* an HTTP error status, a transport failure or a body that is no JSON
ValidateFailure ==
    \/ response.transport # "ok"
    \/ response.status_code >= 400
    \/ response.body.kind = "notjson"

\* C3 as stated: validate_user never raises; on an HTTP error status, a
\* transport failure or a malformed JSON body it returns false; and it
\* returns true if and only if the decoded status field equals 1.
C3_ValidateAsStated ==
    Done("validate_user") =>
        /\ result.kind = "return"
        /\ ValidateFailure => result.value = FALSE
        /\ result.value = TRUE <=> response.body.status = Some(StatusOk)

\* C3 amended: validate_user never raises; on a transport failure or a
\* malformed JSON body it returns false; and it returns true if and only if
\* the body decodes to an object whose status field equals 1, whatever the
\* HTTP status code.
C3_ValidateNeverRaises ==
    Done("validate_user") =>
        /\ result.kind = "return"
        /\ (response.transport # "ok" \/ response.body.kind = "notjson")
           => result.value = FALSE
        /\ result.value = TRUE <=>
             /\ response.transport = "ok"
             /\ response.body.kind = "object"
             /\ response.body.status = Some(StatusOk)

\* validate_user was answered with a body that is no JSON and returned false
C3_Witness ==
    /\ Done("validate_user")
    /\ response.transport = "ok"
    /\ response.body.kind = "notjson"
    /\ result = Return(FALSE)

\* C4: cancel_emergency never raises, and returns true if and only if a
\* response arrived whose HTTP status is exactly 200.
C4_CancelIff200 ==
    Done("cancel_emergency") =>
        /\ result.kind = "return"
        /\ result.value = TRUE <=>
             (response.transport = "ok" /\ response.status_code = HttpOk)

\* cancel_emergency was answered with status 500 and returned false
C4_Witness ==
    /\ Done("cancel_emergency")
    /\ response.transport = "ok"
    /\ response.status_code = 500
    /\ result = Return(FALSE)

\* C5: a send_message answered with a non-200 status and a body carrying an
\* errors list raises a PushoverError carrying that list; one whose transport
\* fails raises a PushoverError wrapping the failure.
C5_SendErrors ==
    (Done("send_message") /\ Sent) =>
        /\ (/\ response.transport = "ok"
            /\ response.status_code # HttpOk
            /\ response.body.kind = "object"
            /\ response.body.errors # None)
           => (ClientError /\ result.detail = Val(response.body.errors))
        /\ response.transport # "ok"
           => (ClientError /\ result.detail = <<response.transport>>)

\* a send_message answered 500 with an errors list raised a PushoverError
C5_Witness ==
    /\ Done("send_message")
    /\ response.transport = "ok"
    /\ response.status_code = 500
    /\ response.body.errors = Some(<<"invalid token">>)
    /\ ClientError
    /\ result.detail = <<"invalid token">>

\* C6: a send_message or update_glance answered 200 with a decoded body that
\* lacks status or request fails with a PushoverError.
C6_MalformedIsClientError ==
    (/\ pc = "done"
     /\ op \in {"send_message", "update_glance"}
     /\ response.transport = "ok"
     /\ response.status_code = HttpOk
     /\ response.body.kind = "object"
     /\ (response.body.status = None \/ response.body.request = None))
    => ClientError

\* C7: no attachment handle is open once send_message has returned or raised.
C7_HandleClosedAtExit ==
    Done("send_message") => handle # "open"

\* the optional fields of send_message's payload, priority apart, each with
\* whether the caller supplied a non-empty, non-default value for it
SuppliedField(k) ==
    CASE k = "title" -> StrTruthy(args.title)
      [] k = "device" -> StrTruthy(args.device)
      [] k = "sound" -> StrTruthy(args.sound)
      [] k = "url" -> StrTruthy(args.url)
      [] k = "url_title" -> StrTruthy(args.url_title)
      [] k = "timestamp" -> IntTruthy(args.timestamp)
      [] k = "html" -> args.html
      [] k = "monospace" -> args.monospace
      [] k = "ttl" -> IntTruthy(args.ttl)
      [] k = "retry" -> IntTruthy(args.retry)
      [] k = "expire" -> IntTruthy(args.expire)
      [] k = "callback" -> StrTruthy(args.callback_url)
      [] OTHER -> FALSE

OptionalKeys ==
    {"title", "device", "sound", "url", "url_title", "timestamp", "html",
     "monospace", "ttl", "retry", "expire", "callback"}

EmergencyKeys == {"retry", "expire", "callback"}

\* C8 as stated: in the request send_message builds, every optional field,
\* priority among them, is present only if the caller supplied a non-empty,
\* non-default value; retry, expire and callback only when the priority is
\* EMERGENCY.
C8_FieldsAsStated ==
    (Done("send_message") /\ Sent) =>
        LET data == requests[1].data IN
        /\ \A k \in OptionalKeys : k \in Keys(data) => SuppliedField(k)
        /\ "priority" \in Keys(data) => args.priority # NORMAL
        /\ \A k \in EmergencyKeys : k \in Keys(data) => args.priority = EMERGENCY

\* C8 amended: priority is always present, with the caller's or the default
\* value; every other optional field is present only if the caller supplied
\* a non-empty, non-default value; retry, expire and callback only when the
\* priority is EMERGENCY.
C8_FieldInclusion ==
    (Done("send_message") /\ Sent) =>
        LET data == requests[1].data IN
        /\ \A k \in OptionalKeys : k \in Keys(data) => SuppliedField(k)
        /\ data["priority"] = Some(args.priority)
        /\ \A k \in EmergencyKeys : k \in Keys(data) => args.priority = EMERGENCY

\* a request was sent for a call that passed an empty title and a zero ttl,
\* and holds neither
C8_Witness ==
    /\ Done("send_message")
    /\ Sent
    /\ args.title = Some("")
    /\ args.ttl = Some(0)
    /\ Keys(requests[1].data) = {"token", "user", "message", "priority"}

\* a text field longer than 100 characters, or a percent outside 0..100
GlancesInvalid(g) ==
    \/ (g.title # None /\ Len(Val(g.title)) > MaxTextLen)
    \/ (g.text # None /\ Len(Val(g.text)) > MaxTextLen)
    \/ (g.subtext # None /\ Len(Val(g.subtext)) > MaxTextLen)
    \/ (g.percent # None /\ (Val(g.percent) < PercentMin \/ Val(g.percent) > PercentMax))

\* C9: update_glance raises a validation error and sends no request if and
\* only if a text field is longer than 100 characters or the percent is
\* outside 0..100; otherwise the request is sent.
C9_GlanceValidation ==
    Done("update_glance") =>
        IF GlancesInvalid(args.glances_data)
        THEN ValidationError /\ ~Sent
        ELSE ~ValidationError /\ Sent

\* an update_glance with a title of exactly 100 characters and percent 100
\* was accepted and sent
C9_Witness ==
    /\ Done("update_glance")
    /\ args.glances_data.title = Some(Text(MaxTextLen))
    /\ args.glances_data.percent = Some(PercentMax)
    /\ ~ValidationError
    /\ Sent

GlancesFields == {"title", "text", "subtext", "count", "percent"}

\* C10: to_dict holds exactly the keys of the fields the caller set, each
\* with the caller's value, a field set to a falsy value included.
C10_ToDictExactlySet ==
    Done("to_dict") =>
        LET g == args.glances_data
            d == result.value
        IN  /\ result.kind = "return"
            /\ Keys(d) = {k \in GlancesFields : g[k] # None}
            /\ \A k \in Keys(d) : Val(d[k]) = Val(g[k])

\* a GlancesData with only count set, to 0, serialized to exactly {count: 0}
C10_Witness ==
    /\ Done("to_dict")
    /\ args.glances_data.count = Some(0)
    /\ \A k \in GlancesFields \ {"count"} : args.glances_data[k] = None
    /\ Keys(result.value) = {"count"}
    /\ result.value.count = Some(0)

=============================================================================
